---- MODULE Spec2Model ----
(***************************************************************************)
(* Temporal smoothing of face attributes (views/face): the sliding-window  *)
(* history buffers and the three aggregators of utils.ts, and the          *)
(* detection session of hooks/useFaceDetection.ts (start/stop, the start   *)
(* delay timer, the requestAnimationFrame loop and its per-frame step).    *)
(*                                                                         *)
(* Numbers.  Confidences are JS doubles in [0,1]; the model writes a       *)
(* confidence c as the integer 40*c and only uses multiples of 5, that is  *)
(* multiples of 1/8, whose sums are exact in IEEE doubles, so that the     *)
(* comparisons and roundings below are those of the code.  0.3 is 12.      *)
(* Ages are written in tenths of a year (30.5 is 305) and are multiples    *)
(* of 5 tenths for the same reason.  An average is kept as the fraction    *)
(* total/count.                                                            *)
(*                                                                         *)
(* JS values.  An absent property (undefined) is a record without that     *)
(* field.  NaN and null are the values NaN and Null below for numbers,     *)
(* NullString for strings and NullRecord for objects.                      *)
(***************************************************************************)
EXTENDS Integers, Sequences, FiniteSets, TLC

VARIABLES
    config,             \* the hook's parameter {windowSize, minConfidence}
    isModelLoaded,      \* useState: model loading has succeeded
    modelLoading,       \* initHuman's await of load()/warmup() is pending
    isDetecting,        \* useState: what the start/stop button shows
    detectionActive,    \* detectionActiveRef.current
    timers,             \* pending setTimeout callbacks of startDetection
    rafPending,         \* pending requestAnimationFrame(detectionLoop) callbacks
    historyBuffers,     \* historyBuffersRef.current {emotion, gender, age}
    faceData,           \* useState: the display record, or NullRecord
    lastResult,         \* the result the latest frame step has read (SpecFrame)
    frames,             \* the number of frame steps so far (SpecFrame)
    arr,                \* a buffer driven by pushWithLimit alone
    limit,              \* the limit of those calls
    pushed,             \* every item pushed into arr so far, in order; in SpecCycle
                        \* the observations the frames so far have had accepted
    arg,                \* the argument of a call followed on its own
    ret                 \* its result, or NotCalled

pipelineVars == <<config, isModelLoaded, modelLoading, isDetecting, detectionActive,
                  timers, rafPending, historyBuffers, faceData>>
frameVars == <<lastResult, frames>>
pushVars == <<arr, limit, pushed>>
callVars == <<arg, ret>>
vars == <<config, isModelLoaded, modelLoading, isDetecting, detectionActive,
          timers, rafPending, historyBuffers, faceData,
          lastResult, frames, arr, limit, pushed, arg, ret>>

----------------------------------------------------------------------------
(* Bounds of the model *)

MaxWindow == 2
MaxPending == 2
MaxCandidates == 2
MaxPushes == 4
MaxFrames == 2
MaxHistory == 3

----------------------------------------------------------------------------
(* JS values *)

NaN == -1000
Null == -2000
NullString == "null"
NullRecord == [null |-> TRUE]

Has(o, f) == f \in DOMAIN o

\* o.f as a condition, for a property f that is a string when present
Truthy(o, f) == Has(o, f) /\ o[f] # ""

\* a + b on JS numbers, b being the property f of o (undefined when absent)
PlusField(a, o, f) == IF a = NaN \/ ~Has(o, f) THEN NaN ELSE a + o[f]

\* Math.round(x) for x = n/d, d > 0, n >= 0 or NaN: the nearest integer, halves up
MathRound(n, d) == IF n = NaN THEN NaN ELSE (2 * n + d) \div (2 * d)

\* Greater with >= for >
GreaterOrEqual(a, b) == a.n # NaN /\ b.n # NaN /\ a.n * b.d >= b.n * a.d

\* a > b for the fractions a, b = [n, d]; false when either is NaN
Greater(a, b) == a.n # NaN /\ b.n # NaN /\ a.n * b.d > b.n * a.d

----------------------------------------------------------------------------
(* utils.ts *)

\* Property names every object literal inherits from Object.prototype: map[name]
\* finds them although the literal does not list them
ObjectPrototypeKeys == {"constructor", "toString", "valueOf", "hasOwnProperty",
                        "isPrototypeOf", "propertyIsEnumerable", "toLocaleString",
                        "__proto__"}

\* what map[name] is for an inherited name: a function or the prototype object, never
\* the name itself (written as a string no label equals)
InheritedValue(name) == "Object.prototype." \o name

\* translateEmotionName: map[name] || name.  The display strings are Chinese; they
\* are written in pinyin here.
translateEmotionName(name) ==
    CASE name = "neutral"  -> "pingjing"
      [] name = "happy"    -> "gaoxing"
      [] name = "sad"      -> "shangxin"
      [] name = "angry"    -> "shengqi"
      [] name = "surprise" -> "jingya"
      [] name = "fear"     -> "kongju"
      [] name = "disgust"  -> "yanwu"
      [] name = "contempt" -> "qingmie"
      [] name \in ObjectPrototypeKeys -> InheritedValue(name)
      [] OTHER             -> name

\* pushWithLimit dropping the newest item of a full buffer (pop for shift)
pushWithLimitPop(a, item, lim) ==
    LET appended == Append(a, item)
    IN  IF Len(appended) > lim THEN SubSeq(appended, 1, Len(appended) - 1) ELSE appended

\* pushWithLimit taking a limit that is not positive for no limit
pushWithLimitPositive(a, item, lim) ==
    LET appended == Append(a, item)
    IN  IF lim > 0 /\ Len(appended) > lim THEN Tail(appended) ELSE appended

\* pushWithLimit without the shift
pushWithLimitNoShift(a, item, lim) == Append(a, item)

\* pushWithLimit: arr.push(item); if (arr.length > limit) arr.shift()
pushWithLimit(a, item, lim) ==
    LET appended == Append(a, item)
    IN  IF Len(appended) > lim THEN Tail(appended) ELSE appended

\* the index of key k in the Map m (a sequence of entries in insertion order), or 0
MapIndex(m, k) ==
    IF \E i \in 1..Len(m) : m[i].key = k
    THEN CHOOSE i \in 1..Len(m) : m[i].key = k
    ELSE 0

\* CounterAdd leaving the count of a label at 1
CounterAddCountOnce(m, k, o) ==
    LET i    == MapIndex(m, k)
        prev == IF i = 0 THEN [count |-> 0, total |-> 0] ELSE m[i]
        new  == [key |-> k, count |-> 1, total |-> PlusField(prev.total, o, "score")]
    IN  IF i = 0 THEN Append(m, new) ELSE [m EXCEPT ![i] = new]

\* counter.get(k) || {count: 0, total: 0}, then counter.set(k, ...): a Map keeps a key
\* that is set again at its place, and appends a new key
CounterAdd(m, k, o) ==
    LET i    == MapIndex(m, k)
        prev == IF i = 0 THEN [count |-> 0, total |-> 0] ELSE m[i]
        new  == [key |-> k, count |-> prev.count + 1,
                 total |-> PlusField(prev.total, o, "score")]
    IN  IF i = 0 THEN Append(m, new) ELSE [m EXCEPT ![i] = new]

\* the loop `for (const e of history) counter.set(...)`, keyed by the field f
RECURSIVE CountBy(_, _, _)
CountBy(history, f, m) ==
    IF history = <<>> THEN m
    ELSE CountBy(Tail(history), f, CounterAdd(m, Head(history)[f], Head(history)))

\* BestEmotion without the comparison of the averages
RECURSIVE BestEmotionCountOnly(_, _, _)
BestEmotionCountOnly(m, i, best) ==
    IF i > Len(m) THEN best
    ELSE LET v   == m[i]
             avg == [n |-> v.total, d |-> v.count]
         IN  IF v.count > best.count
             THEN BestEmotionCountOnly(m, i + 1,
                                       [name |-> v.key, count |-> v.count, avg |-> avg])
             ELSE BestEmotionCountOnly(m, i + 1, best)

\* counter.forEach of getSmoothedEmotion from entry i on: more occurrences win, then
\* the higher average
RECURSIVE BestEmotion(_, _, _)
BestEmotion(m, i, best) ==
    IF i > Len(m) THEN best
    ELSE LET v   == m[i]
             avg == [n |-> v.total, d |-> v.count]
         IN  IF v.count > best.count
                \/ (v.count = best.count /\ Greater(avg, best.avg))
             THEN BestEmotion(m, i + 1, [name |-> v.key, count |-> v.count, avg |-> avg])
             ELSE BestEmotion(m, i + 1, best)

\* getSmoothedEmotion testing the label as getSmoothedGender does (bestName ? ... : null)
getSmoothedEmotionTruthy(emotionHistory) ==
    IF Len(emotionHistory) = 0 THEN NullRecord
    ELSE LET counter == CountBy(emotionHistory, "name", <<>>)
             best    == BestEmotion(counter, 1,
                            [name |-> NullString, count |-> -1, avg |-> [n |-> -1, d |-> 1]])
         IN  IF best.name # NullString /\ best.name # ""
             THEN [name |-> best.name,
                   score |-> MathRound(IF best.avg.n = NaN THEN NaN ELSE 5 * best.avg.n,
                                       2 * best.avg.d)]
             ELSE NullRecord

\* getSmoothedEmotion reporting the average confidence of the whole history
getSmoothedEmotionOverall(emotionHistory) ==
    IF Len(emotionHistory) = 0 THEN NullRecord
    ELSE LET counter == CountBy(emotionHistory, "name", <<>>)
             best    == BestEmotion(counter, 1,
                            [name |-> NullString, count |-> -1, avg |-> [n |-> -1, d |-> 1]])
             all     == CountBy([i \in 1..Len(emotionHistory) |->
                                    [name |-> "all", score |-> emotionHistory[i].score]],
                                "name", <<>>)[1]
         IN  IF best.name # NullString
             THEN [name |-> best.name, score |-> MathRound(5 * all.total, 2 * all.count)]
             ELSE NullRecord

\* getSmoothedEmotion: {name, score} (score in percent) or null
getSmoothedEmotion(emotionHistory) ==
    IF Len(emotionHistory) = 0 THEN NullRecord
    ELSE LET counter == CountBy(emotionHistory, "name", <<>>)
             best    == BestEmotion(counter, 1,
                            [name |-> NullString, count |-> -1, avg |-> [n |-> -1, d |-> 1]])
         IN  IF best.name # NullString
             THEN [name |-> best.name,
                   \* Math.round(bestAvg * 100), bestAvg = (n/40)/d
                   score |-> MathRound(IF best.avg.n = NaN THEN NaN ELSE 5 * best.avg.n,
                                       2 * best.avg.d)]
             ELSE NullRecord

\* BestGender with >= for >: the last of the most frequent labels wins
RECURSIVE BestGenderLast(_, _, _)
BestGenderLast(m, i, best) ==
    IF i > Len(m) THEN best
    ELSE IF m[i].count >= best.count
         THEN BestGenderLast(m, i + 1, [gender |-> m[i].key, count |-> m[i].count])
         ELSE BestGenderLast(m, i + 1, best)

\* counter.forEach of getSmoothedGender from entry i on: more occurrences win
RECURSIVE BestGender(_, _, _)
BestGender(m, i, best) ==
    IF i > Len(m) THEN best
    ELSE IF m[i].count > best.count
         THEN BestGender(m, i + 1, [gender |-> m[i].key, count |-> m[i].count])
         ELSE BestGender(m, i + 1, best)

\* getSmoothedGender: {gender, score} (score in percent), both null on an empty history
getSmoothedGender(genderHistory) ==
    IF Len(genderHistory) = 0 THEN [gender |-> NullString, score |-> Null]
    ELSE LET counter == CountBy(genderHistory, "gender", <<>>)
             best    == BestGender(counter, 1, [gender |-> NullString, count |-> -1])
             \* bestGender ? counter.get(bestGender) : undefined ("" is falsy)
             hasStats == best.gender # NullString /\ best.gender # ""
             stats   == counter[MapIndex(counter, best.gender)]
         IN  [gender |-> best.gender,
              score  |-> IF hasStats
                         THEN MathRound(IF stats.total = NaN THEN NaN ELSE 5 * stats.total,
                                        2 * stats.count)
                         ELSE Null]

RECURSIVE Sum(_)
Sum(s) == IF s = <<>> THEN 0 ELSE Head(s) + Sum(Tail(s))

\* getSmoothedAge cutting the mean after its first decimal (Math.floor for Math.round)
getSmoothedAgeTruncated(ageHistory) ==
    IF Len(ageHistory) = 0 THEN Null
    ELSE Sum(ageHistory) \div Len(ageHistory)

\* getSmoothedAge without the test of the length: 0 / 0 is NaN
getSmoothedAgeUnguarded(ageHistory) ==
    IF Len(ageHistory) = 0 THEN NaN
    ELSE MathRound(Sum(ageHistory), Len(ageHistory))

\* getSmoothedAge: Math.round((sum / length) * 10) / 10, in tenths of a year, or null
getSmoothedAge(ageHistory) ==
    IF Len(ageHistory) = 0 THEN Null
    ELSE MathRound(Sum(ageHistory), Len(ageHistory))

\* createHistoryBuffers
createHistoryBuffers == [emotion |-> <<>>, gender |-> <<>>, age |-> <<>>]

----------------------------------------------------------------------------
(* The detector's results (humanRef.current.result), as far as detectionLoop reads
   them: the first face's emotion candidates, gender, genderScore and age.  The
   fields that are passed through to the display without entering a buffer
   (score, faceScore, distance, real, live, rotation, box, size) are left out, and
   so are the status line (statusMsg, which nothing reads) and the canvas. *)

Emotions == {"happy", "sad"}
\* confidences 0.25 and 0.5
Scores == {10, 20}
\* ages 30.0 and 30.5
Ages == {300, 305}

\* an emotion candidate {emotion, score}
Candidates == [emotion : Emotions, score : Scores]

RECURSIVE SeqsUpTo(_, _)
SeqsUpTo(S, n) ==
    IF n = 0 THEN {<<>>}
    ELSE LET shorter == SeqsUpTo(S, n - 1)
         IN  shorter \cup {Append(q, x) : q \in {r \in shorter : Len(r) = n - 1}, x \in S}

\* candidate lists whose first candidate carries no score
UnscoredLists == {<<[emotion |-> "happy"]>>,
                  <<[emotion |-> "happy"], [emotion |-> "sad", score |-> 10]>>}

\* a candidate whose label is the empty string
EmptyLabelLists == {<<[emotion |-> "", score |-> 10]>>}

\* the detector lists an emotion at most once
CandidateLists ==
    {l \in SeqsUpTo(Candidates, MaxCandidates) :
        \A i, j \in 1..Len(l) : l[i].emotion = l[j].emotion => i = j}
    \cup UnscoredLists

\* the emotion part of a face: no emotion property, or a candidate list
EmotionParts == {<<>>} \cup [emotion : CandidateLists]

\* the gender part: gender and genderScore, either of which may be absent
GenderParts == [genderScore : {20}] \cup [gender : {"male"}]
               \cup [gender : {"male"}, genderScore : Scores]

\* the age part: age may be absent
AgeParts == {<<>>} \cup [age : Ages]

\* faces whose emotion label, gender, or both are the empty string
EmptyLabelFaces ==
    {[emotion |-> l, gender |-> g, genderScore |-> 20, age |-> 300] :
        l \in EmptyLabelLists \cup {<<[emotion |-> "happy", score |-> 20]>>},
        g \in {"", "male"}}

Faces == {e @@ g @@ a : e \in EmotionParts, g \in GenderParts, a \in AgeParts}
         \cup EmptyLabelFaces

FaceResults == {[face |-> <<f>>] : f \in Faces}
\* no result yet (null), or a result without a face
NoFaceResults == {NullRecord, [face |-> <<>>]}
Results == FaceResults \cup NoFaceResults

\* result && result.face && result.face.length > 0
HasFace(result) == Has(result, "face") /\ Len(result.face) > 0

----------------------------------------------------------------------------
(* hooks/useFaceDetection.ts *)

DefaultWindowSize == 1
\* 0.3
DefaultMinConfidence == 12
DEFAULT_CONFIG == [windowSize |-> DefaultWindowSize, minConfidence |-> DefaultMinConfidence]

\* the configurations the hook is given: the default, one that accepts everything,
\* and the larger windows with the threshold 0.5
Configs == {DEFAULT_CONFIG, [windowSize |-> 1, minConfidence |-> 0]}
           \cup [windowSize : 2..MaxWindow, minConfidence : {20}]

\* x.score ?? 0
ScoreOr0(c) == IF Has(c, "score") THEN c.score ELSE 0

\* InsertDesc of a sort that is not stable: c goes before the elements of its score
RECURSIVE InsertDescUnstable(_, _)
InsertDescUnstable(sorted, c) ==
    IF sorted = <<>> THEN <<c>>
    ELSE IF ScoreOr0(Head(sorted)) > ScoreOr0(c)
         THEN <<Head(sorted)>> \o InsertDescUnstable(Tail(sorted), c)
         ELSE <<c>> \o sorted

\* one insertion of Array.prototype.sort, which is stable: c goes after every
\* element the comparator (b.score ?? 0) - (a.score ?? 0) does not put after it
RECURSIVE InsertDesc(_, _)
InsertDesc(sorted, c) ==
    IF sorted = <<>> THEN <<c>>
    ELSE IF ScoreOr0(Head(sorted)) >= ScoreOr0(c)
         THEN <<Head(sorted)>> \o InsertDesc(Tail(sorted), c)
         ELSE <<c>> \o sorted

\* list.slice().sort((a, b) => (b.score ?? 0) - (a.score ?? 0))
RECURSIVE SortDesc(_)
SortDesc(list) ==
    IF list = <<>> THEN <<>>
    ELSE InsertDesc(SortDesc(SubSeq(list, 1, Len(list) - 1)), list[Len(list)])

\* EmotionAfter without the threshold
EmotionAfterUnfiltered(buffer, firstFace, cfg) ==
    IF ~Has(firstFace, "emotion") THEN buffer
    ELSE LET sorted == SortDesc(firstFace.emotion)
         IN  IF sorted # <<>>
             THEN pushWithLimit(buffer,
                                IF Has(sorted[1], "score")
                                THEN [name |-> sorted[1].emotion, score |-> sorted[1].score]
                                ELSE [name |-> sorted[1].emotion],
                                cfg.windowSize)
             ELSE buffer

\* the emotion buffer after a detected frame
EmotionAfter(buffer, firstFace, cfg) ==
    IF ~Has(firstFace, "emotion") THEN buffer
    ELSE LET sorted == SortDesc(firstFace.emotion)
         IN  IF sorted # <<>> /\ ScoreOr0(sorted[1]) >= cfg.minConfidence
             THEN pushWithLimit(buffer,
                                IF Has(sorted[1], "score")
                                THEN [name |-> sorted[1].emotion, score |-> sorted[1].score]
                                ELSE [name |-> sorted[1].emotion],
                                cfg.windowSize)
             ELSE buffer

\* GenderAfter with > for >=
GenderAfterStrict(buffer, firstFace, cfg) ==
    IF Truthy(firstFace, "gender") /\ Has(firstFace, "genderScore")
       /\ firstFace.genderScore > cfg.minConfidence
    THEN pushWithLimit(buffer,
                       [gender |-> firstFace.gender, score |-> firstFace.genderScore],
                       cfg.windowSize)
    ELSE buffer

\* the gender buffer after a detected frame
GenderAfter(buffer, firstFace, cfg) ==
    IF Truthy(firstFace, "gender") /\ Has(firstFace, "genderScore")
       /\ firstFace.genderScore >= cfg.minConfidence
    THEN pushWithLimit(buffer,
                       [gender |-> firstFace.gender, score |-> firstFace.genderScore],
                       cfg.windowSize)
    ELSE buffer

\* AgeAfter filtering the age by the gender confidence of the frame
AgeAfterFiltered(buffer, firstFace, cfg) ==
    IF Has(firstFace, "age") /\ Has(firstFace, "genderScore")
       /\ firstFace.genderScore >= cfg.minConfidence
    THEN pushWithLimit(buffer, firstFace.age, cfg.windowSize)
    ELSE buffer

\* the age buffer after a detected frame
AgeAfter(buffer, firstFace, cfg) ==
    IF Has(firstFace, "age")
    THEN pushWithLimit(buffer, firstFace.age, cfg.windowSize)
    ELSE buffer

\* the buffers after a detected frame
BuffersAfter(buffers, firstFace, cfg) ==
    [emotion |-> EmotionAfter(buffers.emotion, firstFace, cfg),
     gender  |-> GenderAfter(buffers.gender, firstFace, cfg),
     age     |-> AgeAfter(buffers.age, firstFace, cfg)]

\* the record given to setFaceData on a detected frame
Display(buffers) ==
    LET smoothedEmotion == getSmoothedEmotion(buffers.emotion)
        smoothedGender  == getSmoothedGender(buffers.gender)
        smoothedAge     == getSmoothedAge(buffers.age)
    IN  [age         |-> smoothedAge,
         gender      |-> smoothedGender.gender,
         genderScore |-> smoothedGender.score,
         emotion     |-> smoothedEmotion]

\* initHuman: load() and warmup() have resolved
ModelLoaded ==
    /\ modelLoading
    /\ modelLoading' = FALSE
    /\ isModelLoaded' = TRUE
    /\ UNCHANGED <<config, isDetecting, detectionActive, timers, rafPending,
                   historyBuffers, faceData>>

\* initHuman: load() has rejected
ModelLoadFailed ==
    /\ modelLoading
    /\ modelLoading' = FALSE
    /\ UNCHANGED <<config, isModelLoaded, isDetecting, detectionActive, timers,
                   rafPending, historyBuffers, faceData>>

\* startDetection without the test of isModelLoaded
startDetectionUnchecked ==
    /\ timers + rafPending < MaxPending
    /\ isDetecting' = TRUE
    /\ timers' = timers + 1
    /\ UNCHANGED <<config, isModelLoaded, modelLoading, detectionActive, rafPending,
                   historyBuffers, faceData>>

\* startDetection beginning the session with fresh buffers
startDetectionResetting ==
    /\ timers + rafPending < MaxPending
    /\ IF ~isModelLoaded
       THEN UNCHANGED <<isDetecting, timers, historyBuffers>>
       ELSE /\ isDetecting' = TRUE
            /\ timers' = timers + 1
            /\ historyBuffers' = createHistoryBuffers
    /\ UNCHANGED <<config, isModelLoaded, modelLoading, detectionActive, rafPending,
                   faceData>>

\* startDetection.  humanRef.current and videoRef.current are set from the mount on.
startDetection ==
    /\ timers + rafPending < MaxPending
    /\ IF ~isModelLoaded
       THEN UNCHANGED <<isDetecting, timers>>
       ELSE /\ isDetecting' = TRUE
            /\ timers' = timers + 1
    /\ UNCHANGED <<config, isModelLoaded, modelLoading, detectionActive, rafPending,
                   historyBuffers, faceData>>

\* stopDetection
stopDetection ==
    /\ detectionActive' = FALSE
    /\ isDetecting' = FALSE
    /\ UNCHANGED <<config, isModelLoaded, modelLoading, timers, rafPending,
                   historyBuffers, faceData>>

\* stopCamera; the stream it stops is the camera's
stopCamera ==
    /\ detectionActive' = FALSE
    /\ isDetecting' = FALSE
    /\ UNCHANGED <<config, isModelLoaded, modelLoading, timers, rafPending,
                   historyBuffers, faceData>>

\* the callback of startDetection's setTimeout
startTimerFires ==
    /\ timers > 0
    /\ timers' = timers - 1
    /\ detectionActive' = TRUE
    /\ rafPending' = rafPending + 1
    /\ UNCHANGED <<config, isModelLoaded, modelLoading, isDetecting, historyBuffers,
                   faceData>>

\* detectionLoop clearing the buffers on a frame without a face
detectionLoopClearing(result, throws) ==
    /\ rafPending > 0
    /\ IF ~detectionActive
       THEN /\ rafPending' = rafPending - 1
            /\ UNCHANGED <<historyBuffers, faceData>>
       ELSE /\ rafPending' = rafPending
            /\ IF throws
               THEN UNCHANGED <<historyBuffers, faceData>>
               ELSE IF HasFace(result)
                    THEN LET after == BuffersAfter(historyBuffers, result.face[1], config)
                         IN  /\ historyBuffers' = after
                             /\ faceData' = Display(after)
                    ELSE /\ faceData' = NullRecord
                         /\ historyBuffers' = createHistoryBuffers
    /\ UNCHANGED <<config, isModelLoaded, modelLoading, isDetecting, detectionActive,
                   timers>>

\* detectionLoop scheduling the next callback inside its try block
detectionLoopThrowStops(result, throws) ==
    /\ rafPending > 0
    /\ IF ~detectionActive \/ throws
       THEN /\ rafPending' = rafPending - 1
            /\ UNCHANGED <<historyBuffers, faceData>>
       ELSE /\ rafPending' = rafPending
            /\ IF HasFace(result)
               THEN LET after == BuffersAfter(historyBuffers, result.face[1], config)
                    IN  /\ historyBuffers' = after
                        /\ faceData' = Display(after)
               ELSE /\ faceData' = NullRecord
                    /\ UNCHANGED historyBuffers
    /\ UNCHANGED <<config, isModelLoaded, modelLoading, isDetecting, detectionActive,
                   timers>>

\* detectionLoop scheduling the next callback before the test of the flag
detectionLoopRescheduling(result, throws) ==
    /\ rafPending > 0
    /\ rafPending' = rafPending
    /\ IF ~detectionActive \/ throws
       THEN UNCHANGED <<historyBuffers, faceData>>
       ELSE IF HasFace(result)
            THEN LET after == BuffersAfter(historyBuffers, result.face[1], config)
                 IN  /\ historyBuffers' = after
                     /\ faceData' = Display(after)
            ELSE /\ faceData' = NullRecord
                 /\ UNCHANGED historyBuffers
    /\ UNCHANGED <<config, isModelLoaded, modelLoading, isDetecting, detectionActive,
                   timers>>

\* detectionLoop smoothing before the pushes of the frame
detectionLoopStale(result, throws) ==
    /\ rafPending > 0
    /\ IF ~detectionActive
       THEN /\ rafPending' = rafPending - 1
            /\ UNCHANGED <<historyBuffers, faceData>>
       ELSE /\ rafPending' = rafPending
            /\ IF throws
               THEN UNCHANGED <<historyBuffers, faceData>>
               ELSE IF HasFace(result)
                    THEN /\ historyBuffers' =
                                BuffersAfter(historyBuffers, result.face[1], config)
                         /\ faceData' = Display(historyBuffers)
                    ELSE /\ faceData' = NullRecord
                         /\ UNCHANGED historyBuffers
    /\ UNCHANGED <<config, isModelLoaded, modelLoading, isDetecting, detectionActive,
                   timers>>

\* one call of detectionLoop by the animation frame, the detector's result being
\* `result`; throws: reading the result throws, which the try block catches before
\* any update (a throw from the canvas calls comes after the updates)
detectionLoop(result, throws) ==
    /\ rafPending > 0
    /\ IF ~detectionActive
       THEN /\ rafPending' = rafPending - 1
            /\ UNCHANGED <<historyBuffers, faceData>>
       ELSE /\ rafPending' = rafPending
            /\ IF throws
               THEN UNCHANGED <<historyBuffers, faceData>>
               ELSE IF HasFace(result)
                    THEN LET after == BuffersAfter(historyBuffers, result.face[1], config)
                         IN  /\ historyBuffers' = after
                             /\ faceData' = Display(after)
                    ELSE /\ faceData' = NullRecord
                         /\ UNCHANGED historyBuffers
    /\ UNCHANGED <<config, isModelLoaded, modelLoading, isDetecting, detectionActive,
                   timers>>

\* ControlPanel's detection button: disabled until the model is loaded, it stops a
\* running detection and starts one otherwise
DetectionButton ==
    /\ isModelLoaded
    /\ IF isDetecting THEN stopDetection ELSE startDetection

AnimationFrame ==
    \/ \E result \in Results : detectionLoop(result, FALSE)
    \/ detectionLoop(NullRecord, TRUE)

NotCalled == [called |-> FALSE]

\* the session before the model is loaded
InitSession ==
    /\ config \in Configs
    /\ isModelLoaded = FALSE
    /\ modelLoading = TRUE
    /\ isDetecting = FALSE
    /\ detectionActive = FALSE
    /\ timers = 0
    /\ rafPending = 0
    /\ historyBuffers = createHistoryBuffers
    /\ faceData = NullRecord

InitFrames == lastResult = NotCalled /\ frames = 0
InitPush == arr = <<>> /\ limit = 0 /\ pushed = <<>>
InitCall == arg = NullRecord /\ ret = NotCalled

Init == InitSession /\ InitFrames /\ InitPush /\ InitCall

\* the session of the default configuration, for the calls of utils.ts
InitSessionDefault == InitSession /\ config = DEFAULT_CONFIG

Next ==
    \/ ModelLoaded /\ UNCHANGED <<frameVars, pushVars, callVars>>
    \/ ModelLoadFailed /\ UNCHANGED <<frameVars, pushVars, callVars>>
    \/ DetectionButton /\ UNCHANGED <<frameVars, pushVars, callVars>>
    \/ stopCamera /\ UNCHANGED <<frameVars, pushVars, callVars>>
    \/ startTimerFires /\ UNCHANGED <<frameVars, pushVars, callVars>>
    \/ AnimationFrame /\ UNCHANGED <<frameVars, pushVars, callVars>>

\* The detection session: model loading, the buttons, the start delay and the loop
Spec == Init /\ [][Next]_vars

\* a pending callback of the loop is run while the active flag is false: it returns
\* at its first test, before it reads a result
LoopReturns ==
    /\ ~detectionActive
    /\ detectionLoop(NullRecord, FALSE)
    /\ UNCHANGED <<frameVars, pushVars, callVars>>

\* The session in a page that is displayed: the browser runs every callback given to
\* requestAnimationFrame
SpecLive == Init /\ [][Next]_vars /\ WF_vars(LoopReturns)

----------------------------------------------------------------------------
(* The hook called by any component: startDetection, stopDetection and stopCamera
   are called in every state, also while the model is loading or has failed to
   load.  arg records the operation of the latest step. *)

\* the results of these sessions: no result, no face, and two faces
HookResults ==
    NoFaceResults
    \cup {[face |-> <<[emotion |-> <<[emotion |-> "happy", score |-> 20]>>,
                       gender |-> "male", genderScore |-> 20, age |-> 300]>>],
          [face |-> <<[emotion |-> <<[emotion |-> "sad", score |-> 10]>>,
                       gender |-> "male", genderScore |-> 10, age |-> 305]>>]}

Operation(name) ==
    /\ arg' = [fn |-> name]
    /\ UNCHANGED <<ret, frameVars, pushVars>>

HookModelLoaded == ModelLoaded /\ Operation("initHuman")
HookModelLoadFailed == ModelLoadFailed /\ Operation("initHuman")
HookStartDetection == startDetection /\ Operation("startDetection")
HookStopDetection == stopDetection /\ Operation("stopDetection")
HookStopCamera == stopCamera /\ Operation("stopCamera")
HookTimer == startTimerFires /\ Operation("setTimeout")
HookFrame ==
    /\ \/ \E result \in HookResults : detectionLoop(result, FALSE)
       \/ detectionLoop(NullRecord, TRUE)
    /\ Operation("detectionLoop")

NextHook ==
    \/ HookModelLoaded
    \/ HookModelLoadFailed
    \/ HookStartDetection
    \/ HookStopDetection
    \/ HookStopCamera
    \/ HookTimer
    \/ HookFrame

InitHook == InitSession /\ InitFrames /\ InitPush /\ InitCall

SpecHook == InitHook /\ [][NextHook]_vars

----------------------------------------------------------------------------
(* The frames of a running session: the model is loaded, detection has been started
   and the start delay has passed; the animation frame calls detectionLoop with
   the detector's latest result. *)

Threw == [threw |-> TRUE]

InitRunning ==
    /\ config \in Configs
    /\ isModelLoaded = TRUE
    /\ modelLoading = FALSE
    /\ isDetecting = TRUE
    /\ detectionActive = TRUE
    /\ timers = 0
    /\ rafPending = 1
    /\ historyBuffers = createHistoryBuffers
    /\ faceData = NullRecord

Frame ==
    /\ frames < MaxFrames
    /\ \E result \in Results : detectionLoop(result, FALSE) /\ lastResult' = result
    /\ frames' = frames + 1
    /\ UNCHANGED <<pushVars, callVars>>

FrameThrows ==
    /\ frames < MaxFrames
    /\ detectionLoop(NullRecord, TRUE)
    /\ lastResult' = Threw
    /\ frames' = frames + 1
    /\ UNCHANGED <<pushVars, callVars>>

NextFrame == Frame \/ FrameThrows

InitFrame == InitRunning /\ InitFrames /\ InitPush /\ InitCall

SpecFrame == InitFrame /\ [][NextFrame]_vars

----------------------------------------------------------------------------
(* The session frame by frame: an animation frame of the page runs every callback
   that requestAnimationFrame holds, one after the other in one task, so that each
   of them reads the same humanRef.current.result.  pushed records, per attribute,
   the observations of the frames so far that the step has accepted, one per frame,
   and the largest number of callbacks one frame has run. *)

\* the results of these sessions: those of the hook's sessions and a third face
CycleResults ==
    HookResults
    \cup {[face |-> <<[emotion |-> <<[emotion |-> "sad", score |-> 40]>>,
                       gender |-> "female", genderScore |-> 40, age |-> 310]>>]}

\* the buffers after k callbacks have processed the same detected frame
RECURSIVE BuffersAfterCallbacks(_, _, _, _)
BuffersAfterCallbacks(buffers, firstFace, cfg, k) ==
    IF k = 0
    THEN buffers
    ELSE BuffersAfterCallbacks(BuffersAfter(buffers, firstFace, cfg), firstFace, cfg, k - 1)

\* what the step accepts of a face: what one callback pushes into empty buffers
Accepted(firstFace, cfg) == BuffersAfter(createHistoryBuffers, firstFace, cfg)

NoObservations == [emotion |-> <<>>, gender |-> <<>>, age |-> <<>>, callbacks |-> 0]

Max(a, b) == IF a >= b THEN a ELSE b

\* one animation frame: every pending callback runs detectionLoop on the result
DisplayFrame ==
    /\ rafPending > 0
    /\ frames < MaxFrames
    /\ \E result \in CycleResults :
         /\ lastResult' = result
         /\ IF ~detectionActive
            THEN /\ rafPending' = 0
                 /\ UNCHANGED <<historyBuffers, faceData, pushed>>
            ELSE /\ rafPending' = rafPending
                 /\ IF HasFace(result)
                    THEN LET firstFace == result.face[1]
                             after == BuffersAfterCallbacks(historyBuffers, firstFace,
                                                            config, rafPending)
                             seen == Accepted(firstFace, config)
                         IN  /\ historyBuffers' = after
                             /\ faceData' = Display(after)
                             /\ pushed' = [emotion |-> pushed.emotion \o seen.emotion,
                                           gender |-> pushed.gender \o seen.gender,
                                           age |-> pushed.age \o seen.age,
                                           callbacks |-> Max(pushed.callbacks, rafPending)]
                    ELSE /\ faceData' = NullRecord
                         /\ UNCHANGED <<historyBuffers, pushed>>
    /\ frames' = frames + 1
    /\ UNCHANGED <<config, isModelLoaded, modelLoading, isDetecting, detectionActive,
                   timers, arr, limit, callVars>>

CycleModelLoaded == ModelLoaded /\ UNCHANGED <<frameVars, pushVars, callVars>>
CycleButton == DetectionButton /\ UNCHANGED <<frameVars, pushVars, callVars>>
CycleStopCamera == stopCamera /\ UNCHANGED <<frameVars, pushVars, callVars>>
CycleTimer == startTimerFires /\ UNCHANGED <<frameVars, pushVars, callVars>>

NextCycle ==
    \/ CycleModelLoaded
    \/ CycleButton
    \/ CycleStopCamera
    \/ CycleTimer
    \/ DisplayFrame

InitCycle ==
    /\ InitSession
    /\ InitFrames
    /\ arr = <<>> /\ limit = 0 /\ pushed = NoObservations
    /\ InitCall

SpecCycle == InitCycle /\ [][NextCycle]_vars

----------------------------------------------------------------------------
(* Calls of pushWithLimit on one buffer *)

PushItems == {"a", "b", "c"}

\* the limits pushWithLimit is called with: the windows, and 0 and -1
Limits == {-1, 0} \cup 1..MaxWindow

InitPushCalls ==
    /\ arr = <<>>
    /\ limit \in Limits
    /\ pushed = <<>>

PushCall ==
    /\ Len(pushed) < MaxPushes
    /\ \E item \in PushItems :
           /\ arr' = pushWithLimit(arr, item, limit)
           /\ pushed' = Append(pushed, item)
    /\ UNCHANGED <<limit, pipelineVars, frameVars, callVars>>

InitPushSpec == InitSessionDefault /\ InitFrames /\ InitPushCalls /\ InitCall

NextPush == PushCall

SpecPush == InitPushSpec /\ [][NextPush]_vars

----------------------------------------------------------------------------
(* Calls of the aggregators *)

\* confidences 0, 0.25, 0.375, 0.5 and 1
HistoryScores == {0, 10, 15, 20, 40}
\* ages 30.0, 30.5, 31.0 and 32.0
HistoryAges == {300, 305, 310, 320}

\* the labels of the emotion buffer: the hook pushes the label of the top candidate
\* whatever string it is, the empty one included
HistoryEmotions == Emotions \cup {""}

EmotionHistories == SeqsUpTo([name : HistoryEmotions, score : HistoryScores], MaxHistory)
GenderHistories == SeqsUpTo([gender : {"male", "female"}, score : HistoryScores], MaxHistory)

AgeHistories == SeqsUpTo(HistoryAges, MaxHistory)

\* the labels translateEmotionName is called with: the eight of the table, labels
\* the table does not have, and names of members of Object.prototype
KnownEmotions == {"neutral", "happy", "sad", "angry", "surprise", "fear", "disgust",
                  "contempt"}
EmotionNames == KnownEmotions \cup {"", "calm", "Happy"} \cup ObjectPrototypeKeys

CallArgs == [fn : {"getSmoothedEmotion"}, history : EmotionHistories]
            \cup [fn : {"getSmoothedGender"}, history : GenderHistories]
            \cup [fn : {"getSmoothedAge"}, history : AgeHistories]
            \cup [fn : {"translateEmotionName"}, name : EmotionNames]

InitCalls == arg \in CallArgs /\ ret = NotCalled

Returned(v) == [called |-> TRUE, value |-> v]

CallGetSmoothedEmotion ==
    /\ arg.fn = "getSmoothedEmotion"
    /\ ret = NotCalled
    /\ ret' = Returned(getSmoothedEmotion(arg.history))
    /\ UNCHANGED <<arg, pipelineVars, frameVars, pushVars>>

CallGetSmoothedGender ==
    /\ arg.fn = "getSmoothedGender"
    /\ ret = NotCalled
    /\ ret' = Returned(getSmoothedGender(arg.history))
    /\ UNCHANGED <<arg, pipelineVars, frameVars, pushVars>>

CallGetSmoothedAge ==
    /\ arg.fn = "getSmoothedAge"
    /\ ret = NotCalled
    /\ ret' = Returned(getSmoothedAge(arg.history))
    /\ UNCHANGED <<arg, pipelineVars, frameVars, pushVars>>

CallTranslateEmotionName ==
    /\ arg.fn = "translateEmotionName"
    /\ ret = NotCalled
    /\ ret' = Returned(translateEmotionName(arg.name))
    /\ UNCHANGED <<arg, pipelineVars, frameVars, pushVars>>

NextCall ==
    \/ CallGetSmoothedEmotion
    \/ CallGetSmoothedGender
    \/ CallGetSmoothedAge
    \/ CallTranslateEmotionName

InitCallSpec == InitSessionDefault /\ InitFrames /\ InitPush /\ InitCalls

SpecCall == InitCallSpec /\ [][NextCall]_vars

----------------------------------------------------------------------------
(* Properties *)

\* the last n items of s
LastN(s, n) == IF Len(s) > n THEN SubSeq(s, Len(s) - n + 1, Len(s)) ELSE s

\* the positions of label L (field f) in history h, their number and their total score
Positions(h, f, L) == {i \in 1..Len(h) : h[i][f] = L}
Count(h, f, L) == Cardinality(Positions(h, f, L))
RECURSIVE TotalFrom(_, _, _, _)
TotalFrom(h, f, L, i) ==
    IF i > Len(h) THEN 0
    ELSE (IF h[i][f] = L THEN h[i].score ELSE 0) + TotalFrom(h, f, L, i + 1)
Total(h, f, L) == TotalFrom(h, f, L, 1)
LabelsOf(h, f) == {h[i][f] : i \in 1..Len(h)}
FirstPosition(h, f, L) == CHOOSE i \in Positions(h, f, L) : \A j \in Positions(h, f, L) : i <= j

\* p is n/d rounded to the nearest integer, a half going up
IsRounded(p, n, d) == 2 * p * d - d <= 2 * n /\ 2 * n < 2 * p * d + d

\* C1: with a limit N >= 1, after every call of pushWithLimit on a buffer that was
\* empty at first the buffer is no longer than N and holds the last N items pushed,
\* in the order they were pushed.
C1_PushKeepsLastN ==
    limit >= 1 => Len(arr) <= limit /\ arr = LastN(pushed, limit)

\* in the session every history buffer stays within the configured window
HistoryWithinWindow ==
    /\ Len(historyBuffers.emotion) <= config.windowSize
    /\ Len(historyBuffers.gender) <= config.windowSize
    /\ Len(historyBuffers.age) <= config.windowSize

\* four pushes with N = 2: the two oldest items are gone
C1_Witness ==
    limit = 2 /\ pushed = <<"a", "b", "c", "a">> /\ arr = <<"c", "a">>

\* C2: on a non-empty history getSmoothedEmotion returns a label of the history that
\* no label outnumbers, and whose average confidence is at least that of every label
\* occurring as often.
C2_EmotionModeThenAverage ==
    (arg.fn = "getSmoothedEmotion" /\ ret # NotCalled /\ arg.history # <<>>) =>
        LET h == arg.history
            w == ret.value.name
        IN  /\ w \in LabelsOf(h, "name")
            /\ \A L \in LabelsOf(h, "name") :
                   /\ Count(h, "name", w) >= Count(h, "name", L)
                   /\ Count(h, "name", L) = Count(h, "name", w)
                          => Total(h, "name", w) >= Total(h, "name", L)

\* [(happy, 0.5), (sad, 1)]: one occurrence each, sad wins by its average
C2_Witness ==
    /\ arg.fn = "getSmoothedEmotion"
    /\ arg.history = <<[name |-> "happy", score |-> 20], [name |-> "sad", score |-> 40]>>
    /\ ret = Returned([name |-> "sad", score |-> 100])

\* C3: on a non-empty history getSmoothedGender returns a label of the history that
\* no label outnumbers, the one occurring first among those occurring as often,
\* whatever the confidences, with its own average confidence in percent rounded to
\* the nearest integer.
C3_GenderModeFirstWins ==
    (arg.fn = "getSmoothedGender" /\ ret # NotCalled /\ arg.history # <<>>) =>
        LET h == arg.history
            w == ret.value.gender
        IN  /\ w \in LabelsOf(h, "gender")
            /\ \A L \in LabelsOf(h, "gender") :
                   /\ Count(h, "gender", w) >= Count(h, "gender", L)
                   /\ Count(h, "gender", L) = Count(h, "gender", w)
                          => FirstPosition(h, "gender", w) <= FirstPosition(h, "gender", L)
            /\ IsRounded(ret.value.score, 100 * Total(h, "gender", w),
                         40 * Count(h, "gender", w))

\* [(male, 0.375), (female, 1)]: one occurrence each, male is first; 37.5 rounds to 38
C3_Witness ==
    /\ arg.fn = "getSmoothedGender"
    /\ arg.history = <<[gender |-> "male", score |-> 15], [gender |-> "female", score |-> 40]>>
    /\ ret = Returned([gender |-> "male", score |-> 38])

\* a frame step has just run on a result with a face / without one
FrameStepped == frames' = frames + 1
FaceStepped == FrameStepped /\ lastResult' \in FaceResults
NoFaceStepped == FrameStepped /\ lastResult' \in NoFaceResults

\* C4: a frame step on a result without a face sets the display record to null and
\* leaves the three buffers as they were.
C4_MissKeepsBuffers ==
    [][NoFaceStepped => faceData' = NullRecord /\ historyBuffers' = historyBuffers]_vars

\* a frame without a face after a frame that filled the buffers
C4_Witness ==
    /\ frames = 2
    /\ lastResult \in NoFaceResults
    /\ faceData = NullRecord
    /\ historyBuffers.emotion # <<>> /\ historyBuffers.gender # <<>>
    /\ historyBuffers.age # <<>>

\* every candidate of the list carries a confidence
Scored(list) == \A i \in 1..Len(list) : Has(list[i], "score")

\* the face has candidates, all with a confidence below the threshold
TopBelow(firstFace, cfg) ==
    /\ Has(firstFace, "emotion")
    /\ firstFace.emotion # <<>>
    /\ Scored(firstFace.emotion)
    /\ \A i \in 1..Len(firstFace.emotion) : firstFace.emotion[i].score < cfg.minConfidence

\* C5: a detected frame whose best emotion candidate is below minConfidence leaves
\* the emotion buffer as it was; if the buffer has entries the emotion displayed is
\* the smoothed emotion of that buffer, not null, and the one displayed before.
C5_BelowThresholdKeepsEmotion ==
    [][(FaceStepped /\ TopBelow(lastResult'.face[1], config)) =>
          /\ historyBuffers'.emotion = historyBuffers.emotion
          /\ historyBuffers.emotion # <<>> =>
                 /\ faceData'.emotion # NullRecord
                 /\ faceData'.emotion = getSmoothedEmotion(historyBuffers.emotion)
                 /\ faceData # NullRecord => faceData'.emotion = faceData.emotion]_vars

\* minConfidence 0.3: (sad, 0.5) is in the buffer, then a frame with (happy, 0.25)
C5_Witness ==
    /\ config = DEFAULT_CONFIG
    /\ frames = 2
    /\ lastResult \in FaceResults
    /\ Has(lastResult.face[1], "emotion")
    /\ lastResult.face[1].emotion = <<[emotion |-> "happy", score |-> 10]>>
    /\ historyBuffers.emotion = <<[name |-> "sad", score |-> 20]>>
    /\ faceData.emotion = [name |-> "sad", score |-> 50]

\* the first of the candidates of the highest confidence
TopIndex(list) ==
    CHOOSE i \in 1..Len(list) :
        \A j \in 1..Len(list) :
            list[j].score < list[i].score \/ (list[j].score = list[i].score /\ i <= j)

\* C6: on a detected frame with a list of candidates that carry confidences, the
\* emotion buffer gets the first candidate of the highest confidence (as {name,
\* score}, the oldest entry leaving a full buffer) if that confidence is at least
\* minConfidence, and is left as it was otherwise and on an empty list.
C6_TopCandidatePushed ==
    [][(FaceStepped /\ Has(lastResult'.face[1], "emotion")
            /\ Scored(lastResult'.face[1].emotion)) =>
          LET list == lastResult'.face[1].emotion
              top  == list[TopIndex(list)]
          IN  historyBuffers'.emotion =
                  IF list # <<>> /\ top.score >= config.minConfidence
                  THEN LastN(Append(historyBuffers.emotion,
                                    [name |-> top.emotion, score |-> top.score]),
                             config.windowSize)
                  ELSE historyBuffers.emotion]_vars

\* minConfidence 0.5 and the candidates (happy, 0.5), (sad, 0.5): happy is pushed
C6_Witness ==
    /\ config.minConfidence = 20
    /\ lastResult \in FaceResults
    /\ Has(lastResult.face[1], "emotion")
    /\ lastResult.face[1].emotion = <<[emotion |-> "happy", score |-> 20],
                                      [emotion |-> "sad", score |-> 20]>>
    /\ historyBuffers.emotion = <<[name |-> "happy", score |-> 20]>>

\* C7: on a detected frame with a gender label and a gender confidence, the gender buffer
\* gets {gender, score} if the confidence is at least minConfidence and is left as
\* it was otherwise, whatever the frame's emotion candidates and age are.
C7_GenderPushedIffConfident ==
    [][(FaceStepped /\ Has(lastResult'.face[1], "gender")
            /\ lastResult'.face[1].gender # ""
            /\ Has(lastResult'.face[1], "genderScore")) =>
          LET firstFace == lastResult'.face[1]
          IN  historyBuffers'.gender =
                  IF firstFace.genderScore >= config.minConfidence
                  THEN LastN(Append(historyBuffers.gender,
                                    [gender |-> firstFace.gender,
                                     score |-> firstFace.genderScore]),
                             config.windowSize)
                  ELSE historyBuffers.gender]_vars

\* minConfidence 0.5: a gender of confidence 0.5 is pushed by a frame whose emotion
\* is rejected and that has no age
C7_Witness ==
    /\ config.minConfidence = 20
    /\ frames = 1
    /\ lastResult = [face |-> <<[emotion |-> <<[emotion |-> "happy", score |-> 10]>>,
                                 gender |-> "male", genderScore |-> 20]>>]
    /\ historyBuffers = [emotion |-> <<>>,
                         gender |-> <<[gender |-> "male", score |-> 20]>>,
                         age |-> <<>>]

\* C8: on a detected frame with an age, the age buffer gets the age (the oldest entry
\* leaving a full buffer), whatever minConfidence and the frame's confidences are.
C8_AgeAlwaysPushed ==
    [][(FaceStepped /\ Has(lastResult'.face[1], "age")) =>
          historyBuffers'.age = LastN(Append(historyBuffers.age, lastResult'.face[1].age),
                                      config.windowSize)]_vars

\* minConfidence 0.5: the age is pushed by a frame whose emotion and gender are
\* rejected
C8_Witness ==
    /\ config.minConfidence = 20
    /\ frames = 1
    /\ lastResult = [face |-> <<[emotion |-> <<[emotion |-> "happy", score |-> 10]>>,
                                 gender |-> "male", genderScore |-> 10, age |-> 305]>>]
    /\ historyBuffers = [emotion |-> <<>>, gender |-> <<>>, age |-> <<305>>]

\* C9: while isDetecting is false (before the first start, and from a stop to the
\* next start) no step changes the buffers or the display record.
C9_NoUpdateWhileStopped ==
    [][~isDetecting => UNCHANGED <<historyBuffers, faceData>>]_vars

\* C10: at most one call of detectionLoop is pending at any time.
C10_OneLoopPending == rafPending <= 1

\* the call of an aggregator on the history h has returned
Called(fn) == arg.fn = fn /\ ret # NotCalled

\* C11: on the empty history getSmoothedEmotion returns null, getSmoothedGender
\* returns {gender: null, score: null} and getSmoothedAge returns null.
C11_EmptyHistoryNoResult ==
    /\ (Called("getSmoothedEmotion") /\ arg.history = <<>>) => ret.value = NullRecord
    /\ (Called("getSmoothedGender") /\ arg.history = <<>>)
           => ret.value = [gender |-> NullString, score |-> Null]
    /\ (Called("getSmoothedAge") /\ arg.history = <<>>) => ret.value = Null

\* a detected frame shows as absent every attribute whose buffer is empty after it
EmptyBufferShownAbsent ==
    [][FaceStepped =>
          /\ historyBuffers'.emotion = <<>> => faceData'.emotion = NullRecord
          /\ historyBuffers'.gender = <<>>
                 => faceData'.gender = NullString /\ faceData'.genderScore = Null
          /\ historyBuffers'.age = <<>> => faceData'.age = Null]_vars

\* getSmoothedAge([]) has returned null
C11_Witness ==
    Called("getSmoothedAge") /\ arg.history = <<>> /\ ret = Returned(Null)

\* C12: among the labels that tie with the returned one in both occurrence count and
\* average confidence, getSmoothedEmotion returns the one occurring first in the
\* history.
C12_EmotionTieFirstSeen ==
    (Called("getSmoothedEmotion") /\ arg.history # <<>>) =>
        LET h == arg.history
            w == ret.value.name
        IN  \A L \in LabelsOf(h, "name") :
                (Count(h, "name", L) = Count(h, "name", w)
                     /\ Total(h, "name", L) = Total(h, "name", w))
                    => FirstPosition(h, "name", w) <= FirstPosition(h, "name", L)

\* [(sad, 0.5), (happy, 0.5)]: the same count and average, sad is first
C12_Witness ==
    /\ Called("getSmoothedEmotion")
    /\ arg.history = <<[name |-> "sad", score |-> 20], [name |-> "happy", score |-> 20]>>
    /\ ret = Returned([name |-> "sad", score |-> 50])

\* C13: the confidence getSmoothedEmotion returns is the average confidence of the
\* entries of the returned label, in percent, rounded to the nearest integer.
C13_EmotionScoreOwnAverage ==
    (Called("getSmoothedEmotion") /\ arg.history # <<>>) =>
        LET h == arg.history
            w == ret.value.name
        IN  IsRounded(ret.value.score, 100 * Total(h, "name", w), 40 * Count(h, "name", w))

\* [(happy, 1), (happy, 0.5), (sad, 1)]: happy with 75, neither the 83 of the whole
\* history nor the 100 of its best entry
C13_Witness ==
    /\ Called("getSmoothedEmotion")
    /\ arg.history = <<[name |-> "happy", score |-> 40], [name |-> "happy", score |-> 20],
                       [name |-> "sad", score |-> 40]>>
    /\ ret = Returned([name |-> "happy", score |-> 75])

\* the sum of the entries of h from position i on
RECURSIVE AgesFrom(_, _)
AgesFrom(h, i) == IF i > Len(h) THEN 0 ELSE h[i] + AgesFrom(h, i + 1)

\* C14: on a non-empty history getSmoothedAge returns the mean of all its entries
\* rounded to one decimal (to the nearest tenth of a year, a half going up).
C14_AgeMeanOneDecimal ==
    (Called("getSmoothedAge") /\ arg.history # <<>>) =>
        IsRounded(ret.value, AgesFrom(arg.history, 1), Len(arg.history))

\* [30.5, 31]: the mean 30.75 is returned as 30.8
C14_Witness ==
    Called("getSmoothedAge") /\ arg.history = <<305, 310>> /\ ret = Returned(308)

\* [30, 32, 31] gives 31.0
AgeExample ==
    (Called("getSmoothedAge") /\ arg.history = <<300, 320, 310>>) => ret = Returned(310)

\* C15: in every state of the session the display record is null or its age, gender,
\* gender score and emotion are the three aggregates of the buffers as they are.
C15_DisplayFromCurrentBuffers ==
    faceData # NullRecord =>
        /\ faceData.age = getSmoothedAge(historyBuffers.age)
        /\ faceData.gender = getSmoothedGender(historyBuffers.gender).gender
        /\ faceData.genderScore = getSmoothedGender(historyBuffers.gender).score
        /\ faceData.emotion = getSmoothedEmotion(historyBuffers.emotion)

\* windowSize 2: the display shows the aggregates of the two observations of each
\* buffer (the mean age 30.25 as 30.3)
C15_Witness ==
    /\ config.windowSize = 2
    /\ historyBuffers.emotion = <<[name |-> "happy", score |-> 20],
                                  [name |-> "sad", score |-> 20]>>
    /\ historyBuffers.age = <<300, 305>>
    /\ faceData # NullRecord
    /\ faceData.emotion = [name |-> "happy", score |-> 50]
    /\ faceData.age = 303

IsPercentOf(p, s) == IsRounded(p, 100 * s, 40)

\* C17: with windowSize 1, after a detected frame each buffer holds the observation
\* of this frame if it was accepted and is as before otherwise, never more than one
\* entry; the display shows the label and the percentage of the one emotion entry
\* and of the one gender entry, and the one age.
C17_WindowOneKeepsLatest ==
    [][(FaceStepped /\ config.windowSize = 1) =>
          LET firstFace == lastResult'.face[1]
              after     == historyBuffers'
          IN  /\ Len(after.emotion) <= 1 /\ Len(after.gender) <= 1 /\ Len(after.age) <= 1
              /\ (Has(firstFace, "emotion") /\ Scored(firstFace.emotion)) =>
                     LET list == firstFace.emotion
                         top  == list[TopIndex(list)]
                     IN  after.emotion =
                             IF list # <<>> /\ top.score >= config.minConfidence
                             THEN <<[name |-> top.emotion, score |-> top.score]>>
                             ELSE historyBuffers.emotion
              /\ (Has(firstFace, "gender") /\ firstFace.gender # ""
                      /\ Has(firstFace, "genderScore")) =>
                     after.gender =
                         IF firstFace.genderScore >= config.minConfidence
                         THEN <<[gender |-> firstFace.gender,
                                 score |-> firstFace.genderScore]>>
                         ELSE historyBuffers.gender
              /\ Has(firstFace, "age") => after.age = <<firstFace.age>>
              /\ (after.emotion # <<>> /\ Has(after.emotion[1], "score")) =>
                     /\ faceData'.emotion.name = after.emotion[1].name
                     /\ IsPercentOf(faceData'.emotion.score, after.emotion[1].score)
              /\ after.gender # <<>> =>
                     /\ faceData'.gender = after.gender[1].gender
                     /\ IsPercentOf(faceData'.genderScore, after.gender[1].score)
              /\ after.age # <<>> => faceData'.age = after.age[1]]_vars

\* the default configuration, second frame: (sad, 0.5), male 0.5 and the age 30.5
C17_Witness ==
    /\ config = DEFAULT_CONFIG
    /\ frames = 2
    /\ lastResult = [face |-> <<[emotion |-> <<[emotion |-> "sad", score |-> 20]>>,
                                 gender |-> "male", genderScore |-> 20, age |-> 305]>>]
    /\ historyBuffers = [emotion |-> <<[name |-> "sad", score |-> 20]>>,
                         gender |-> <<[gender |-> "male", score |-> 20]>>,
                         age |-> <<305>>]
    /\ faceData = [age |-> 305, gender |-> "male", genderScore |-> 50,
                   emotion |-> [name |-> "sad", score |-> 50]]

\* the face has a list of candidates none of which carries a confidence
NoneScored(firstFace) ==
    /\ Has(firstFace, "emotion")
    /\ firstFace.emotion # <<>>
    /\ \A i \in 1..Len(firstFace.emotion) : ~Has(firstFace.emotion[i], "score")

\* what a detected frame with missing inputs leaves unchanged
MissingInputsSkipped(firstFace) ==
    /\ (~Has(firstFace, "emotion") \/ NoneScored(firstFace))
           => historyBuffers'.emotion = historyBuffers.emotion
    /\ (~Has(firstFace, "gender") \/ ~Has(firstFace, "genderScore"))
           => historyBuffers'.gender = historyBuffers.gender
    /\ ~Has(firstFace, "age") => historyBuffers'.age = historyBuffers.age

\* C18: on a detected frame, whatever minConfidence is, nothing is pushed into the
\* emotion buffer when the face has no emotion list or its candidates carry no
\* confidence, nothing into the gender buffer when the gender or its confidence is
\* absent, and nothing into the age buffer when the age is absent.
C18_MissingInputSkipped ==
    [][FaceStepped => MissingInputsSkipped(lastResult'.face[1])]_vars

\* the same for the thresholds above 0
MissingInputSkippedAboveZero ==
    [][(FaceStepped /\ config.minConfidence > 0)
          => MissingInputsSkipped(lastResult'.face[1])]_vars

\* the display string of each label of the table (in pinyin)
DisplayString ==
    [neutral |-> "pingjing", happy |-> "gaoxing", sad |-> "shangxin", angry |-> "shengqi",
     surprise |-> "jingya", fear |-> "kongju", disgust |-> "yanwu", contempt |-> "qingmie"]

\* the label is translated by the table if it is one of the eight, and returned as
\* it is otherwise
TranslatedOrUnchanged ==
    ret.value = IF arg.name \in KnownEmotions THEN DisplayString[arg.name] ELSE arg.name

\* C19: translateEmotionName returns the display string of each of the eight labels
\* of its table and returns every other string unchanged.
C19_TranslateOrPassThrough ==
    Called("translateEmotionName") => TranslatedOrUnchanged

\* the same for the strings that name no member of Object.prototype
TranslateOwnNames ==
    (Called("translateEmotionName") /\ arg.name \notin ObjectPrototypeKeys)
        => TranslatedOrUnchanged

\* C20: on a non-empty history of confidences between 0 and 1 the confidence returned
\* by getSmoothedEmotion and by getSmoothedGender is an integer from 0 to 100.
C20_ScoreIsPercentage ==
    /\ (Called("getSmoothedEmotion") /\ arg.history # <<>>) => ret.value.score \in 0..100
    /\ (Called("getSmoothedGender") /\ arg.history # <<>>) => ret.value.score \in 0..100

\* [(male, 1), (male, 1), (female, 0)]: the confidence 100
C20_Witness ==
    /\ Called("getSmoothedGender")
    /\ arg.history = <<[gender |-> "male", score |-> 40], [gender |-> "male", score |-> 40],
                       [gender |-> "female", score |-> 0]>>
    /\ ret = Returned([gender |-> "male", score |-> 100])

\* [(sad, 0)] gives the confidence 0
ZeroScoreExample ==
    (Called("getSmoothedEmotion") /\ arg.history = <<[name |-> "sad", score |-> 0]>>)
        => ret = Returned([name |-> "sad", score |-> 0])

\* while every entry of the emotion buffer carries a confidence, the scores displayed
\* are integers from 0 to 100 or absent
DisplayedScoresPercent ==
    (faceData # NullRecord /\ Scored(historyBuffers.emotion)) =>
        /\ faceData.emotion = NullRecord \/ faceData.emotion.score \in 0..100
        /\ faceData.genderScore = Null \/ faceData.genderScore \in 0..100

\* C21: with a limit of 0 or less, a buffer that was empty at first is empty after
\* every call of pushWithLimit.
C21_NonPositiveLimitKeepsEmpty ==
    limit <= 0 => Len(arr) = 0

\* two pushes with the limit 0
C21_Witness ==
    limit = 0 /\ pushed = <<"a", "b">> /\ arr = <<>>

\* C22: a callback of the loop run while the active flag is false removes itself
\* from the pending callbacks and changes neither the buffers nor the display; and
\* if the flag is false from some moment on, then from some moment on no callback is
\* pending.
C22_FlagEndsLoop ==
    /\ [][(~detectionActive /\ ~detectionActive') =>
              /\ rafPending' <= rafPending
              /\ UNCHANGED <<historyBuffers, faceData>>]_vars
    /\ (<>[](~detectionActive) => <>[](rafPending = 0))

\* the loop has run, has been stopped, and its callback has returned
C22_Witness ==
    /\ ~detectionActive /\ ~isDetecting
    /\ timers = 0 /\ rafPending = 0
    /\ historyBuffers.age # <<>>

\* the latest step is a call of the operation
Latest(name) == Has(arg, "fn") /\ arg.fn = name

\* nothing of the session has begun
SessionIdle ==
    /\ ~isDetecting /\ ~detectionActive
    /\ timers = 0 /\ rafPending = 0
    /\ historyBuffers = createHistoryBuffers
    /\ faceData = NullRecord

\* C23: a call of startDetection while isModelLoaded is false changes nothing of the
\* session, and as long as isModelLoaded is false isDetecting and the active flag are
\* false, no timer and no callback is pending and the buffers are empty.
C23_NoDetectionBeforeModel ==
    /\ [][(~isModelLoaded /\ Latest("startDetection")') => UNCHANGED pipelineVars]_vars
    /\ [](~isModelLoaded => SessionIdle)

\* loading has failed and startDetection has been called
C23_Witness ==
    /\ ~isModelLoaded /\ ~modelLoading
    /\ Latest("startDetection")
    /\ SessionIdle

\* C24: a frame step that throws while the active flag is true leaves the loop's
\* callback pending, as a frame step that succeeds does, and the flag true.
C24_ThrowKeepsLoop ==
    [][(FrameStepped /\ detectionActive) =>
          /\ rafPending' = rafPending
          /\ rafPending' >= 1
          /\ detectionActive']_vars

\* the second frame step has thrown and the loop's callback is pending
C24_Witness ==
    /\ frames = 2
    /\ lastResult = Threw
    /\ detectionActive
    /\ rafPending = 1
    /\ historyBuffers.age # <<>>

\* C25: on a non-empty history getSmoothedEmotion returns an object whose label
\* occurs in the history and whose confidence is not null, and getSmoothedGender
\* returns a label of the history that is not null with a confidence that is not
\* null; the emotion labels include the empty string, the gender labels do not.
C25_NonEmptyHistoryHasResult ==
    /\ (Called("getSmoothedEmotion") /\ arg.history # <<>>) =>
           /\ ret.value # NullRecord
           /\ ret.value.name \in LabelsOf(arg.history, "name")
           /\ ret.value.score # Null
    /\ (Called("getSmoothedGender") /\ arg.history # <<>>) =>
           /\ ret.value.gender # NullString
           /\ ret.value.gender \in LabelsOf(arg.history, "gender")
           /\ ret.value.score # Null

\* [("", 0.5), ("", 1), (sad, 1)]: the empty label is returned with 75
C25_Witness ==
    /\ Called("getSmoothedEmotion")
    /\ arg.history = <<[name |-> "", score |-> 20], [name |-> "", score |-> 40],
                       [name |-> "sad", score |-> 40]>>
    /\ ret = Returned([name |-> "", score |-> 75])

\* the gender buffer never holds the empty label
GenderLabelsNotEmpty ==
    \A i \in 1..Len(historyBuffers.gender) : historyBuffers.gender[i].gender # ""

\* the emotion buffer can hold it
EmptyEmotionLabelPushed ==
    /\ historyBuffers.emotion = <<[name |-> "", score |-> 10]>>
    /\ faceData # NullRecord
    /\ faceData.emotion = [name |-> "", score |-> 25]

----------------------------------------------------------------------------
(* C26 *)

\* the display record the aggregators give for the last windowSize accepted
\* observations of each attribute
DisplayOfAccepted ==
    Display([emotion |-> LastN(pushed.emotion, config.windowSize),
             gender |-> LastN(pushed.gender, config.windowSize),
             age |-> LastN(pushed.age, config.windowSize)])

\* C26: the smoothed emotion, gender and age shown after a detected frame are those
\* of the last windowSize accepted observations of each attribute, whatever older
\* and rejected observations, frames without a face and stop/start cycles the
\* session has had: two sessions whose last accepted observations coincide show
\* the same values.
C26_LastAcceptedDecide == faceData # NullRecord => faceData = DisplayOfAccepted

\* it holds as long as every frame has run one callback
LastAcceptedDecideOneLoop ==
    pushed.callbacks <= 1 => C26_LastAcceptedDecide

\* two sessions of window 2 with the accepted observations happy/male/30.0 and then
\* sad/female/31.0: one callback per frame ...
OneLoopSession ==
    /\ config = [windowSize |-> 2, minConfidence |-> 20]
    /\ pushed = [emotion |-> <<[name |-> "happy", score |-> 20],
                               [name |-> "sad", score |-> 40]>>,
                 gender |-> <<[gender |-> "male", score |-> 20],
                              [gender |-> "female", score |-> 40]>>,
                 age |-> <<300, 310>>, callbacks |-> 1]
    /\ faceData = [age |-> 305, gender |-> "male", genderScore |-> 50,
                   emotion |-> [name |-> "sad", score |-> 100]]

\* ... and two callbacks per frame after start, stop, start
TwoLoopSession ==
    /\ config = [windowSize |-> 2, minConfidence |-> 20]
    /\ pushed = [emotion |-> <<[name |-> "happy", score |-> 20],
                               [name |-> "sad", score |-> 40]>>,
                 gender |-> <<[gender |-> "male", score |-> 20],
                              [gender |-> "female", score |-> 40]>>,
                 age |-> <<300, 310>>, callbacks |-> 2]
    /\ faceData = [age |-> 310, gender |-> "female", genderScore |-> 100,
                   emotion |-> [name |-> "sad", score |-> 100]]

====
